---------------------------- MODULE Spec2Model ----------------------------
(***************************************************************************)
(* A model of cognoma/genes, src/2.process.py: the row splitter            *)
(* (tidy_split), the symbol resolution builder (get_chr_symbol_map), the   *)
(* history mapper (create_history_df), the gene catalog and xref builders  *)
(* (get_gene_info, create_gene_df, create_gene_xref_df) and the script     *)
(* body that runs them and writes their outputs.                           *)
(*                                                                         *)
(* A string is a sequence of one-character strings, so that str.split and  *)
(* the lexical order of sort_values are computed, not assumed.  A cell of  *)
(* a DataFrame is NaN or Val(v); a row is [index, cells]; a DataFrame is   *)
(* [columns, rows], the index being the pandas row label.                  *)
(***************************************************************************)
EXTENDS Integers, Sequences, FiniteSets, TLC

VARIABLES
  pc,            \* position of the run
  df,            \* tidy_split: the argument df
  column,        \* tidy_split: the argument column
  sep,           \* tidy_split: the argument sep
  keep,          \* tidy_split: the argument keep
  new_df,        \* tidy_split: the returned frame
  history_file,  \* download/gene_history.gz, as text cells
  gene_file,     \* download/Homo_sapiens.gene_info.gz, as text cells
  history_df,    \* __main__ / create_history_df: history_df
  gene_df,       \* __main__ / get_chr_symbol_map: gene_df
  gene_xref_df,  \* __main__: gene_xref_df
  primary_df,    \* get_chr_symbol_map: primary_df
  synonym_df,    \* get_chr_symbol_map: synonym_df
  map_df,        \* __main__ / get_chr_symbol_map: map_df
  files          \* the data/ directory: path -> written frame, or Absent

vars == <<pc, df, column, sep, keep, new_df, history_file, gene_file,
          history_df, gene_df, gene_xref_df, primary_df, synonym_df, map_df,
          files>>

---------------------------------------------------------------------------
(* Bounds of the model.                                                    *)

MaxRows == 2
MaxGenes == 2
MaxHistory == 2
MaxFileGenes == 1

---------------------------------------------------------------------------
(* Cells, strings and frames.                                              *)

NaN == [na |-> TRUE]
Val(v) == [na |-> FALSE, v |-> v]
IsNa(c) == c.na

\* Code points of the characters the inputs use (Python compares str by
\* code point).
Ord(c) ==
  CASE c = "," -> 44
    [] c = "-" -> 45
    [] c = "0" -> 48
    [] c = "1" -> 49
    [] c = "2" -> 50
    [] c = "3" -> 51
    [] c = "6" -> 54
    [] c = "9" -> 57
    [] c = ":" -> 58
    [] c = "A" -> 65
    [] c = "B" -> 66
    [] c = "H" -> 72
    [] c = "M" -> 77
    [] c = "N" -> 78
    [] c = "X" -> 88
    [] c = "|" -> 124

RECURSIVE StrLess(_, _)
\* s < t on Python str: lexicographic by code point, a proper prefix first.
StrLess(s, t) ==
  IF t = <<>> THEN FALSE
  ELSE IF s = <<>> THEN TRUE
  ELSE IF Head(s) = Head(t) THEN StrLess(Tail(s), Tail(t))
  ELSE Ord(Head(s)) < Ord(Head(t))

\* Whether sep occurs in s at position i (1-based).
MatchAt(s, sepr, i) ==
  /\ i + Len(sepr) - 1 <= Len(s)
  /\ \A k \in 1..Len(sepr) : s[i + k - 1] = sepr[k]

RECURSIVE SplitFrom(_, _, _, _)
\* str.split scanning from position i with the piece cur begun: the leftmost
\* occurrence of sep ends a piece, occurrences do not overlap, and empty
\* pieces are kept.
SplitFrom(s, sepr, i, cur) ==
  IF i > Len(s) THEN <<cur>>
  ELSE IF MatchAt(s, sepr, i)
       THEN <<cur>> \o SplitFrom(s, sepr, i + Len(sepr), <<>>)
       ELSE SplitFrom(s, sepr, i + 1, Append(cur, s[i]))

\* presplit.split(sep), for a non-empty sep.
Split(s, sepr) == SplitFrom(s, sepr, 1, <<>>)

Frame(cols, rows) == [columns |-> cols, rows |-> rows]
Row(i, cells) == [index |-> i, cells |-> cells]

Range(s) == {s[i] : i \in DOMAIN s}

\* df.dropna(subset=[col])
DropNa(d, col) ==
  LET Present(r) == ~IsNa(r.cells[col])
  IN  Frame(d.columns, SelectSeq(d.rows, Present))

---------------------------------------------------------------------------
(* tidy_split                                                              *)

\* .astype(str) on the column to split: the columns split here hold str,
\* and str(s) of a str is s.
AsStr(v) == v

\* A faulty variant: the presplit value is retained whenever keep is set,
\* also when the field holds a single value.
RowValuesKeepAlways(presplit, sepr, kp) ==
  LET values == Split(presplit, sepr)
  IN  (IF kp THEN <<presplit>> ELSE <<>>) \o values

\* The values one row appends to new_values: the presplit value first when
\* keep is set and it splits in more than one, then each split value.
RowValues(presplit, sepr, kp) ==
  LET values == Split(presplit, sepr)
  IN  (IF kp /\ Len(values) > 1 THEN <<presplit>> ELSE <<>>) \o values

RECURSIVE Indexes(_, _, _, _, _)
\* The list indexes after the loop has run over positions i.. of the frame
\* d (already without the rows whose column is missing); positions count
\* from 1 here, from 0 in the code.
Indexes(d, col, sepr, kp, i) ==
  IF i > Len(d.rows) THEN <<>>
  ELSE LET presplit == AsStr(d.rows[i].cells[col].v)
           n == Len(RowValues(presplit, sepr, kp))
       IN  [k \in 1..n |-> i] \o Indexes(d, col, sepr, kp, i + 1)

RECURSIVE NewValues(_, _, _, _, _)
\* The list new_values after the loop has run over positions i.. of d.
NewValues(d, col, sepr, kp, i) ==
  IF i > Len(d.rows) THEN <<>>
  ELSE LET presplit == AsStr(d.rows[i].cells[col].v)
       IN  RowValues(presplit, sepr, kp) \o NewValues(d, col, sepr, kp, i + 1)

\* tidy_split(df, column, sep, keep)
TidySplit(d, col, sepr, kp) ==
  LET dd == DropNa(d, col)
      indexes == Indexes(dd, col, sepr, kp, 1)
      new_values == NewValues(dd, col, sepr, kp, 1)
  IN  Frame(dd.columns,
            [k \in 1..Len(indexes) |->
               Row(dd.rows[indexes[k]].index,
                   [dd.rows[indexes[k]].cells EXCEPT ![col] = Val(new_values[k])])])

---------------------------------------------------------------------------
(* Inputs of the row splitter.                                             *)

Empty == Frame(<<>>, <<>>)
Absent == [absent |-> TRUE]

\* Values of the split column: no separator, one, several, repeated
\* substrings, empty substrings, the other separator.
SplitStrings ==
  { <<>>, <<"A">>, <<"A", "B">>, <<"A", "|", "B">>, <<"A", "|", "A">>,
    <<"A", "|", "B", "|", "A">>, <<"|">>, <<"A", "|", "|", "B">>,
    <<"A", ",", "B">>, <<"A", ",", "B", "|", "A">> }
SplitCells == {NaN} \cup {Val(s) : s \in SplitStrings}
OtherCells == {NaN, Val(<<"A", "|", "B">>)}
SplitColumns == <<"x", "y">>
Seps == { <<"|">>, <<",">>, <<"|", "|">> }

InitRest ==
  /\ column = "" /\ sep = <<>> /\ keep = FALSE /\ new_df = Empty
  /\ history_file = Empty /\ gene_file = Empty
  /\ history_df = Empty /\ gene_df = Empty /\ gene_xref_df = Empty
  /\ primary_df = Empty /\ synonym_df = Empty /\ map_df = Empty
  /\ files = <<>>

SplitInit ==
  /\ InitRest
  /\ df = Frame(SplitColumns, <<>>)
  /\ pc = "split_input"

\* The caller builds the frame to split, a row at a time.
SplitAddRow ==
  /\ pc = "split_input"
  /\ Len(df.rows) < MaxRows
  /\ \E cx \in SplitCells, cy \in OtherCells :
       df' = Frame(SplitColumns,
                   Append(df.rows, Row(Len(df.rows), [x |-> cx, y |-> cy])))
  /\ UNCHANGED <<pc, column, sep, keep, new_df, history_file, gene_file,
                 history_df, gene_df, gene_xref_df, primary_df, synonym_df,
                 map_df, files>>

\* A call tidy_split(df, column, sep, keep).
TidySplitCall ==
  /\ pc = "split_input"
  /\ \E col \in Range(SplitColumns), sp \in Seps, kp \in BOOLEAN :
       /\ column' = col /\ sep' = sp /\ keep' = kp
       /\ new_df' = TidySplit(df, col, sp, kp)
  /\ pc' = "split_done"
  /\ UNCHANGED <<df, history_file, gene_file, history_df, gene_df,
                 gene_xref_df, primary_df, synonym_df, map_df, files>>

SplitNext == SplitAddRow \/ TidySplitCall

SpecSplit == SplitInit /\ [][SplitNext]_vars

---------------------------------------------------------------------------
(* The pandas operations get_chr_symbol_map and the builders use.          *)

\* Columns read as numbers; every other column holds str.
NumericColumns ==
  {"#tax_id", "GeneID", "Discontinued_GeneID", "Discontinue_Date", "tax_id",
   "entrez_gene_id", "old_entrez_gene_id", "new_entrez_gene_id", "date"}

\* .loc[:, cols] and [cols]: the frame with the columns cols, in that order.
Loc(d, cols) ==
  Frame(cols,
        [k \in DOMAIN d.rows |->
           Row(d.rows[k].index, [c \in Range(cols) |-> d.rows[k].cells[c]])])

\* The new name of column c under renamer, a sequence of <<old, new>>;
\* a column the renamer does not name keeps its name.
NewName(renamer, c) ==
  IF \E k \in DOMAIN renamer : renamer[k][1] = c
  THEN renamer[CHOOSE k \in DOMAIN renamer : renamer[k][1] = c][2]
  ELSE c

\* .rename(columns=renamer)
Rename(d, renamer) ==
  LET OldName(n) == CHOOSE k \in DOMAIN d.columns : NewName(renamer, d.columns[k]) = n
      cols == [k \in DOMAIN d.columns |-> NewName(renamer, d.columns[k])]
  IN  Frame(cols,
            [k \in DOMAIN d.rows |->
               Row(d.rows[k].index,
                   [n \in Range(cols) |-> d.rows[k].cells[d.columns[OldName(n)]]])])

\* .drop([col], axis='columns')
DropColumn(d, col) ==
  LET Other(c) == c # col
  IN  Loc(d, SelectSeq(d.columns, Other))

\* The values of row r in the columns subset; NaN equals NaN here, as in
\* pandas' duplicated().
Key(r, subset) == [c \in subset |-> r.cells[c]]

\* .drop_duplicates(subset, keep='first')
DropDuplicatesFirst(d, subset) ==
  LET rows == d.rows
      Kept == {i \in DOMAIN rows :
                 \A j \in 1..(i - 1) : Key(rows[j], subset) # Key(rows[i], subset)}
      pos == [i \in DOMAIN rows |-> Cardinality({j \in Kept : j <= i})]
  IN  Frame(d.columns,
            [k \in 1..Cardinality(Kept) |->
               rows[CHOOSE i \in Kept : pos[i] = k]])

\* .drop_duplicates(subset, keep=False): every row whose key occurs on
\* another row goes.
DropDuplicatesNone(d, subset) ==
  LET rows == d.rows
      Kept == {i \in DOMAIN rows :
                 \A j \in DOMAIN rows :
                   j # i => Key(rows[j], subset) # Key(rows[i], subset)}
      pos == [i \in DOMAIN rows |-> Cardinality({j \in Kept : j <= i})]
  IN  Frame(d.columns,
            [k \in 1..Cardinality(Kept) |->
               rows[CHOOSE i \in Kept : pos[i] = k]])

\* a.append(b), for frames with the same columns.
AppendFrame(a, b) == Frame(a.columns, a.rows \o b.rows)

\* u sorts strictly before v in column col: missing values last, numbers by
\* value, str by code point.
CellLess(col, u, v) ==
  IF IsNa(u) THEN FALSE
  ELSE IF IsNa(v) THEN TRUE
  ELSE IF col \in NumericColumns THEN u.v < v.v
  ELSE StrLess(u.v, v.v)

RECURSIVE RowLess(_, _, _)
\* Row a sorts strictly before row b by the columns by, the first deciding.
RowLess(a, b, by) ==
  IF by = <<>> THEN FALSE
  ELSE IF CellLess(Head(by), a.cells[Head(by)], b.cells[Head(by)]) THEN TRUE
  ELSE IF CellLess(Head(by), b.cells[Head(by)], a.cells[Head(by)]) THEN FALSE
  ELSE RowLess(a, b, Tail(by))

RECURSIVE Insert(_, _, _)
\* r put into the sorted rows after every row it does not sort before.
Insert(rows, r, by) ==
  IF rows = <<>> THEN <<r>>
  ELSE IF RowLess(r, Head(rows), by) THEN <<r>> \o rows
  ELSE <<Head(rows)>> \o Insert(Tail(rows), r, by)

RECURSIVE SortRows(_, _)
SortRows(rows, by) ==
  IF rows = <<>> THEN <<>>
  ELSE Insert(SortRows(SubSeq(rows, 1, Len(rows) - 1), by), rows[Len(rows)], by)

\* .sort_values(by) of a frame whose rows differ in the columns by (no
\* ties, so the order is the same under every sorting algorithm).
SortValues(d, by) == Frame(d.columns, SortRows(d.rows, by))

\* .sort_values(by) in general: pandas' default sort is not stable, so rows
\* that tie may come out in any order.  The set of the possible results.
SortValuesOutcomes(d, by) ==
  LET n == Len(d.rows)
      Perms == {p \in [1..n -> 1..n] : \A i, j \in 1..n : i # j => p[i] # p[j]}
      Sorted(p) == \A i \in 1..(n - 1) : ~RowLess(d.rows[p[i + 1]], d.rows[p[i]], by)
  IN  {Frame(d.columns, [k \in 1..n |-> d.rows[p[k]]]) : p \in {q \in Perms : Sorted(q)}}

---------------------------------------------------------------------------
(* get_chr_symbol_map                                                      *)

Pipe == <<"|">>

\* primary_df: the approved symbols, one row per chromosome key.
PrimaryDf(g) ==
  TidySplit(Loc(g, <<"entrez_gene_id", "chromosome", "symbol">>),
            "chromosome", Pipe, TRUE)

\* A faulty variant: of a repeated (chromosome, symbol) pair the first row
\* is kept.
SynonymDfKeepFirst(g) ==
  DropDuplicatesFirst(
    TidySplit(
      TidySplit(
        Rename(Loc(g, <<"entrez_gene_id", "chromosome", "synonyms">>),
               << <<"synonyms", "symbol">> >>),
        "symbol", Pipe, FALSE),
      "chromosome", Pipe, TRUE),
    {"chromosome", "symbol"})

\* A faulty variant: a synonym is dropped when it repeats on any
\* chromosome.
SynonymDfBySymbol(g) ==
  DropDuplicatesNone(
    TidySplit(
      TidySplit(
        Rename(Loc(g, <<"entrez_gene_id", "chromosome", "synonyms">>),
               << <<"synonyms", "symbol">> >>),
        "symbol", Pipe, FALSE),
      "chromosome", Pipe, TRUE),
    {"symbol"})

\* synonym_df: the synonyms, one row per synonym and chromosome key, without
\* every (chromosome, symbol) pair that occurs more than once.
SynonymDf(g) ==
  DropDuplicatesNone(
    TidySplit(
      TidySplit(
        Rename(Loc(g, <<"entrez_gene_id", "chromosome", "synonyms">>),
               << <<"synonyms", "symbol">> >>),
        "symbol", Pipe, FALSE),
      "chromosome", Pipe, TRUE),
    {"chromosome", "symbol"})

\* A faulty variant: the merged rows are not deduplicated.
MapDfNoDedup(primary, synonym) ==
  Frame(<<"symbol", "chromosome", "entrez_gene_id">>,
        SortRows(Loc(AppendFrame(primary, synonym),
                     <<"symbol", "chromosome", "entrez_gene_id">>).rows,
                 <<"symbol", "chromosome">>))

\* A faulty variant: the synonyms are listed first.
MapDfSynonymFirst(primary, synonym) ==
  SortValues(
    Loc(DropDuplicatesFirst(AppendFrame(synonym, primary), {"chromosome", "symbol"}),
        <<"symbol", "chromosome", "entrez_gene_id">>),
    <<"symbol", "chromosome">>)

\* map_df: the primary rows, then the synonym rows, the first row of each
\* (chromosome, symbol) pair kept, sorted by symbol and chromosome.
MapDf(primary, synonym) ==
  SortValues(
    Loc(DropDuplicatesFirst(AppendFrame(primary, synonym), {"chromosome", "symbol"}),
        <<"symbol", "chromosome", "entrez_gene_id">>),
    <<"symbol", "chromosome">>)

\* get_chr_symbol_map(gene_df)
GetChrSymbolMap(g) == MapDf(PrimaryDf(g), SynonymDf(g))

---------------------------------------------------------------------------
(* Inputs of the symbol resolution builder: gene catalogs.                 *)

\* The columns of the frame create_gene_df returns.
GeneColumns ==
  <<"entrez_gene_id", "symbol", "other_id", "description", "chromosome",
    "gene_type", "synonyms", "aliases">>

ChromosomeCells == {NaN, Val(<<"1">>), Val(<<"1", "|", "2">>)}
SymbolCells == {NaN, Val(<<"A">>), Val(<<"B">>)}
SynonymCells ==
  {NaN, Val(<<"A">>), Val(<<"A", "|", "B">>), Val(<<"A", "|", "A">>)}

GeneCells(id, sym, chr, syn) ==
  [entrez_gene_id |-> Val(id), symbol |-> sym, other_id |-> NaN,
   description |-> NaN, chromosome |-> chr, gene_type |-> NaN,
   synonyms |-> syn, aliases |-> NaN]

MapInit ==
  /\ InitRest
  /\ df = Empty
  /\ pc = "map_input"

\* The caller's catalog gets one more gene; identifiers are unique and
\* ascending, as get_gene_info leaves them.
MapAddGene ==
  /\ pc = "map_input"
  /\ Len(gene_df.rows) < MaxGenes
  /\ \E sym \in SymbolCells, chr \in ChromosomeCells, syn \in SynonymCells :
       gene_df' = Frame(GeneColumns,
                        Append(gene_df.rows,
                               Row(Len(gene_df.rows),
                                   GeneCells(Len(gene_df.rows) + 1, sym, chr, syn))))
  /\ UNCHANGED <<pc, df, column, sep, keep, new_df, history_file, gene_file,
                 history_df, gene_xref_df, primary_df, synonym_df, map_df, files>>

\* A call get_chr_symbol_map(gene_df).
GetChrSymbolMapCall ==
  /\ pc = "map_input"
  /\ gene_df # Empty
  /\ primary_df' = PrimaryDf(gene_df)
  /\ synonym_df' = SynonymDf(gene_df)
  /\ map_df' = MapDf(primary_df', synonym_df')
  /\ pc' = "map_done"
  /\ UNCHANGED <<df, column, sep, keep, new_df, history_file, gene_file,
                 history_df, gene_df, gene_xref_df, files>>

MapNext == MapAddGene \/ GetChrSymbolMapCall

SpecMap == MapInit /\ [][MapNext]_vars

---------------------------------------------------------------------------
(* Reading the source files.                                               *)

\* A source file is a frame of text cells.  read_table turns a cell that
\* is the marker '-' (na_values) or one of pandas' default markers into a
\* missing value, a cell of a numeric column into its number and leaves the
\* other cells as str.  The inputs hold digits in the columns named in
\* NumericColumns and no all-digit text elsewhere, which is what lets the
\* column name stand for the type pandas infers.  Of pandas' default
\* markers the inputs use the empty field and NA.
NaValues == { <<"-">>, <<>>, <<"N", "A">> }

RECURSIVE ParseInt(_)
\* The number written by the digits s.
ParseInt(s) ==
  IF s = <<>> THEN 0
  ELSE 10 * ParseInt(SubSeq(s, 1, Len(s) - 1)) + (Ord(s[Len(s)]) - Ord("0"))

ReadCell(col, text) ==
  IF text \in NaValues THEN NaN
  ELSE IF col \in NumericColumns THEN Val(ParseInt(text))
  ELSE Val(text)

\* pandas.read_table(path, compression='gzip', na_values='-'): rows are
\* labelled 0, 1, ... in file order.
ReadTable(file) ==
  Frame(file.columns,
        [k \in DOMAIN file.rows |->
           Row(k - 1, [c \in Range(file.columns) |-> ReadCell(c, file.rows[k][c])])])

\* The taxon of Homo sapiens, the literal of the .query() calls.
TaxId == 9606

\* .query("tax_id == 9606")
QueryTaxId(d) ==
  LET Human(r) == r.cells["tax_id"] = Val(TaxId)
  IN  Frame(d.columns, SelectSeq(d.rows, Human))

\* list(renamer): the keys of the OrderedDict, in order.
RenamerKeys(renamer) == [k \in DOMAIN renamer |-> renamer[k][1]]

\* What a builder gives: a frame, or the exception it raises.
Built(d) == [ok |-> TRUE, frame |-> d]
Raised(e) == [ok |-> FALSE, error |-> e]

---------------------------------------------------------------------------
(* create_history_df                                                       *)

HistoryRenamer ==
  << <<"Discontinued_GeneID", "old_entrez_gene_id">>,
     <<"GeneID", "new_entrez_gene_id">>,
     <<"Discontinue_Date", "date">>,
     <<"#tax_id", "tax_id">> >>

\* .astype(int) of the new identifiers: numbers carry no float/int
\* distinction here, so the cast leaves them as they are.
AsInt(c) == c

\* A faulty variant: the rows without an old identifier are dropped, those
\* without a new one are not.
HistorySelectedDropOld(file) ==
  DropNa(
    DropColumn(
      QueryTaxId(Rename(Loc(ReadTable(file), RenamerKeys(HistoryRenamer)),
                        HistoryRenamer)),
      "tax_id"),
    "old_entrez_gene_id")

\* A faulty variant: no row is dropped for a missing identifier.
HistorySelectedNoDropNa(file) ==
  DropColumn(
    QueryTaxId(Rename(Loc(ReadTable(file), RenamerKeys(HistoryRenamer)),
                      HistoryRenamer)),
    "tax_id")

\* The chain of create_history_df up to the sort: select, rename, keep the
\* taxon, drop its column, drop the rows without a new identifier.
HistorySelected(file) ==
  DropNa(
    DropColumn(
      QueryTaxId(Rename(Loc(ReadTable(file), RenamerKeys(HistoryRenamer)),
                        HistoryRenamer)),
      "tax_id"),
    "new_entrez_gene_id")

\* create_history_df(path): the frames it may return (the sort may order
\* ties either way), or the KeyError of selecting an absent column.
CreateHistoryDf(file) ==
  IF ~(Range(RenamerKeys(HistoryRenamer)) \subseteq Range(file.columns))
  THEN {Raised("KeyError")}
  ELSE {Built(Frame(d.columns,
                    [k \in DOMAIN d.rows |->
                       Row(d.rows[k].index,
                           [d.rows[k].cells EXCEPT
                              !["new_entrez_gene_id"] = AsInt(@)])]))
          : d \in SortValuesOutcomes(HistorySelected(file), <<"old_entrez_gene_id">>)}

---------------------------------------------------------------------------
(* Inputs of the history mapper: gene_history files.                       *)

HistoryHeader ==
  <<"#tax_id", "GeneID", "Discontinued_GeneID", "Discontinued_Symbol",
    "Discontinue_Date">>

\* Homo sapiens and Homo sapiens neanderthalensis.
TaxTexts == { <<"9", "6", "0", "6">>, <<"6", "3", "2", "2", "1">> }
OldIdTexts == { <<"-">>, <<"1">>, <<"2">> }
NewIdTexts == { <<"-">>, <<>>, <<"3">> }

HistoryLine(tax, new, old) ==
  [c \in Range(HistoryHeader) |->
     CASE c = "#tax_id" -> tax
       [] c = "GeneID" -> new
       [] c = "Discontinued_GeneID" -> old
       [] c = "Discontinued_Symbol" -> <<"A">>
       [] c = "Discontinue_Date" -> <<"1", "9", "9", "6">>]

HistoryInit ==
  /\ InitRest
  /\ df = Empty
  /\ pc = "history_input"

\* The history file gets one more line.
HistoryAddLine ==
  /\ pc = "history_input"
  /\ Len(history_file.rows) < MaxHistory
  /\ \E tax \in TaxTexts, new \in NewIdTexts, old \in OldIdTexts :
       history_file' = Frame(HistoryHeader,
                             Append(history_file.rows, HistoryLine(tax, new, old)))
  /\ UNCHANGED <<pc, df, column, sep, keep, new_df, gene_file, history_df,
                 gene_df, gene_xref_df, primary_df, synonym_df, map_df, files>>

\* A call create_history_df(path) on the file.
CreateHistoryDfCall ==
  /\ pc = "history_input"
  /\ history_file # Empty
  /\ \E res \in CreateHistoryDf(history_file) :
       /\ res.ok
       /\ history_df' = res.frame
  /\ pc' = "history_done"
  /\ UNCHANGED <<df, column, sep, keep, new_df, history_file, gene_file,
                 gene_df, gene_xref_df, primary_df, synonym_df, map_df, files>>

HistoryNext == HistoryAddLine \/ CreateHistoryDfCall

SpecHistory == HistoryInit /\ [][HistoryNext]_vars

---------------------------------------------------------------------------
(* get_gene_info, create_gene_df, create_gene_xref_df                      *)

\* get_gene_info(path, renamer): the frames it may return, or the KeyError
\* of selecting an absent column.
GetGeneInfo(file, renamer) ==
  IF ~(Range(RenamerKeys(renamer)) \subseteq Range(file.columns))
  THEN {Raised("KeyError")}
  ELSE {Built(d) :
          d \in SortValuesOutcomes(
                  DropColumn(
                    QueryTaxId(Rename(Loc(ReadTable(file), RenamerKeys(renamer)),
                                      renamer)),
                    "tax_id"),
                  <<"entrez_gene_id">>)}

GeneRenamer ==
  << <<"GeneID", "entrez_gene_id">>,
     <<"Symbol", "symbol">>,
     <<"dbXrefs", "other_id">>,
     <<"description", "description">>,
     <<"chromosome", "chromosome">>,
     <<"type_of_gene", "gene_type">>,
     <<"Synonyms", "synonyms">>,
     <<"Other_designations", "aliases">>,
     <<"#tax_id", "tax_id">> >>

\* create_gene_df(path)
CreateGeneDf(file) == GetGeneInfo(file, GeneRenamer)

XrefRenamer ==
  << <<"GeneID", "entrez_gene_id">>,
     <<"dbXrefs", "other_ids">>,
     <<"#tax_id", "tax_id">> >>

RECURSIVE FindFirst(_, _, _)
\* The first position at or after i where sepr occurs in s, 0 if none.
FindFirst(s, sepr, i) ==
  IF i > Len(s) THEN 0
  ELSE IF MatchAt(s, sepr, i) THEN i
  ELSE FindFirst(s, sepr, i + 1)

\* s.split(pat, n=1): at most one split, at the first occurrence.
SplitOnce(s, pat) ==
  LET i == FindFirst(s, pat, 1)
  IN  IF i = 0 THEN <<s>>
      ELSE <<SubSeq(s, 1, i - 1), SubSeq(s, i + Len(pat), Len(s))>>

\* gene_df['other_ids'].str.split(pat=':', n=1, expand=True): a frame with
\* as many columns as the most parts of a row, short rows filled with
\* missing values.
ExpandOtherIds(d) ==
  LET parts == [k \in DOMAIN d.rows |-> SplitOnce(d.rows[k].cells["other_ids"].v, <<":">>)]
      width == IF \E k \in DOMAIN parts : Len(parts[k]) = 2 THEN 2 ELSE 1
  IN  [width |-> width,
       rows |-> [k \in DOMAIN d.rows |->
                   [index |-> d.rows[k].index,
                    parts |-> [m \in 1..width |->
                                 IF m <= Len(parts[k]) THEN Val(parts[k][m]) ELSE NaN]]]]

\* The pairs <<i, j>> of a left and a right row with the same label, the
\* rows of .merge(other_ids, left_index=True, right_index=True).
MergePairs(left, right) ==
  LET n == Len(left)
      m == Len(right)
      Matches == {q \in (1..n) \X (1..m) : left[q[1]].index = right[q[2]].index}
      Before(a, b) == a[1] < b[1] \/ (a[1] = b[1] /\ a[2] < b[2])
      place == [q \in Matches |-> Cardinality({o \in Matches : Before(o, q)}) + 1]
  IN  [k \in 1..Cardinality(Matches) |-> CHOOSE q \in Matches : place[q] = k]

\* The body of create_gene_xref_df after get_gene_info returned d.
XrefFromGeneInfo(d) ==
  LET split == TidySplit(d, "other_ids", Pipe, FALSE)
      other == ExpandOtherIds(split)
      pairs == MergePairs(split.rows, other.rows)
  IN  IF split.rows = <<>> THEN Raised("AttributeError or ValueError")
      ELSE IF other.width # 2 THEN Raised("ValueError")
      ELSE Built(Frame(<<"entrez_gene_id", "resource", "identifier">>,
                       [k \in DOMAIN pairs |->
                          Row(split.rows[pairs[k][1]].index,
                              [entrez_gene_id |-> split.rows[pairs[k][1]].cells["entrez_gene_id"],
                               resource |-> other.rows[pairs[k][2]].parts[1],
                               identifier |-> other.rows[pairs[k][2]].parts[2]])]))

\* create_gene_xref_df(path)
CreateGeneXrefDf(file) ==
  {IF res.ok THEN XrefFromGeneInfo(res.frame) ELSE res
     : res \in GetGeneInfo(file, XrefRenamer)}

---------------------------------------------------------------------------
(* The script body (__main__).                                             *)

UpdaterPath == "data/updater.tsv"
GenesPath == "data/genes.tsv"
XrefsPath == "data/genes-xrefs.tsv"
MapperPath == "data/chromosome-symbol-mapper.tsv"
OutputPaths == {UpdaterPath, GenesPath, XrefsPath, MapperPath}

\* .to_csv(path, index=False, sep='\t'): the header and the rows, without
\* the index.
ToCsv(d) ==
  [columns |-> d.columns, lines |-> [k \in DOMAIN d.rows |-> d.rows[k].cells]]

GeneHeader ==
  <<"#tax_id", "GeneID", "Symbol", "LocusTag", "Synonyms", "dbXrefs",
    "chromosome", "description", "type_of_gene", "Other_designations">>

\* A header without column c.
Without(header, c) ==
  LET Other(x) == x # c
  IN  SelectSeq(header, Other)

MainHistoryHeaders == {HistoryHeader, Without(HistoryHeader, "GeneID")}
MainGeneHeaders ==
  {GeneHeader, Without(GeneHeader, "Symbol"), Without(GeneHeader, "#tax_id")}

IdText(n) == CASE n = 1 -> <<"1">> [] n = 2 -> <<"2">> [] n = 3 -> <<"3">>

\* Symbols (one of them the text NA), and dbXrefs fields: missing, one
\* xref, two, and one without a colon.
SymbolTexts == { <<"A">>, <<"N", "A">> }
XrefTexts ==
  { <<"-">>, <<"H", ":", "1">>, <<"H", ":", "1", "|", "M", ":", "2">>, <<"X">> }

GeneChoices == [tax : TaxTexts, symbol : SymbolTexts, xrefs : XrefTexts]

GeneLine(id, ch) ==
  [c \in Range(GeneHeader) |->
     CASE c = "#tax_id" -> ch.tax
       [] c = "GeneID" -> IdText(id)
       [] c = "Symbol" -> ch.symbol
       [] c = "LocusTag" -> <<"-">>
       [] c = "Synonyms" -> <<"B", "|", "A">>
       [] c = "dbXrefs" -> ch.xrefs
       [] c = "chromosome" -> <<"X", "|", "M">>
       [] c = "description" -> <<"A", "B">>
       [] c = "type_of_gene" -> <<"A">>
       [] c = "Other_designations" -> <<"-">>]

\* The lines of a file under header: the fields of the columns it has.
Lines(header, lines) ==
  [k \in DOMAIN lines |-> [c \in Range(header) |-> lines[k][c]]]

\* Gene files of up to MaxFileGenes lines, the identifiers descending.
MainGeneFiles ==
  UNION {{Frame(h, Lines(h, [k \in 1..n |-> GeneLine(n - k + 1, chs[k])]))
            : h \in MainGeneHeaders, chs \in [1..n -> GeneChoices]}
         : n \in 0..MaxFileGenes}

MainHistoryFiles ==
  {Frame(h, Lines(h, lines)) :
     h \in MainHistoryHeaders,
     lines \in { <<>>,
                 <<HistoryLine(<<"9", "6", "0", "6">>, <<"3">>, <<"2">>),
                   HistoryLine(<<"9", "6", "0", "6">>, <<"-">>, <<"1">>)>> }}

MainInit ==
  /\ pc = "main_start"
  /\ df = Empty /\ column = "" /\ sep = <<>> /\ keep = FALSE /\ new_df = Empty
  /\ history_file \in MainHistoryFiles
  /\ gene_file \in MainGeneFiles
  /\ history_df = Empty /\ gene_df = Empty /\ gene_xref_df = Empty
  /\ primary_df = Empty /\ synonym_df = Empty /\ map_df = Empty
  /\ files = [p \in OutputPaths |-> Absent]

\* history_df = create_history_df(path); an exception ends the run.
MainCreateHistoryDf ==
  /\ pc = "main_start"
  /\ \E res \in CreateHistoryDf(history_file) :
       IF res.ok
       THEN history_df' = res.frame /\ pc' = "history_built"
       ELSE history_df' = history_df /\ pc' = "history_failed"
  /\ UNCHANGED <<df, column, sep, keep, new_df, history_file, gene_file,
                 gene_df, gene_xref_df, primary_df, synonym_df, map_df, files>>

\* history_df.to_csv(path, index=False, sep='\t')
MainWriteUpdater ==
  /\ pc = "history_built"
  /\ files' = [files EXCEPT ![UpdaterPath] = ToCsv(history_df)]
  /\ pc' = "updater_written"
  /\ UNCHANGED <<df, column, sep, keep, new_df, history_file, gene_file,
                 history_df, gene_df, gene_xref_df, primary_df, synonym_df, map_df>>

\* gene_df = create_gene_df(info_path)
MainCreateGeneDf ==
  /\ pc = "updater_written"
  /\ \E res \in CreateGeneDf(gene_file) :
       IF res.ok
       THEN gene_df' = res.frame /\ pc' = "gene_built"
       ELSE gene_df' = gene_df /\ pc' = "gene_failed"
  /\ UNCHANGED <<df, column, sep, keep, new_df, history_file, gene_file,
                 history_df, gene_xref_df, primary_df, synonym_df, map_df, files>>

\* gene_df.to_csv(path, index=False, sep='\t')
MainWriteGenes ==
  /\ pc = "gene_built"
  /\ files' = [files EXCEPT ![GenesPath] = ToCsv(gene_df)]
  /\ pc' = "genes_written"
  /\ UNCHANGED <<df, column, sep, keep, new_df, history_file, gene_file,
                 history_df, gene_df, gene_xref_df, primary_df, synonym_df, map_df>>

\* A faulty variant: the exception of the builder is swallowed and the run
\* goes on to write.
MainCreateGeneXrefDfSwallow ==
  /\ pc = "genes_written"
  /\ \E res \in CreateGeneXrefDf(gene_file) :
       IF res.ok
       THEN gene_xref_df' = res.frame /\ pc' = "xref_built"
       ELSE gene_xref_df' = gene_xref_df /\ pc' = "xref_built"
  /\ UNCHANGED <<df, column, sep, keep, new_df, history_file, gene_file,
                 history_df, gene_df, primary_df, synonym_df, map_df, files>>

\* gene_xref_df = create_gene_xref_df(info_path)
MainCreateGeneXrefDf ==
  /\ pc = "genes_written"
  /\ \E res \in CreateGeneXrefDf(gene_file) :
       IF res.ok
       THEN gene_xref_df' = res.frame /\ pc' = "xref_built"
       ELSE gene_xref_df' = gene_xref_df /\ pc' = "xref_failed"
  /\ UNCHANGED <<df, column, sep, keep, new_df, history_file, gene_file,
                 history_df, gene_df, primary_df, synonym_df, map_df, files>>

\* gene_xref_df.to_csv(path, index=False, sep='\t')
MainWriteXrefs ==
  /\ pc = "xref_built"
  /\ files' = [files EXCEPT ![XrefsPath] = ToCsv(gene_xref_df)]
  /\ pc' = "xrefs_written"
  /\ UNCHANGED <<df, column, sep, keep, new_df, history_file, gene_file,
                 history_df, gene_df, gene_xref_df, primary_df, synonym_df, map_df>>

\* map_df = get_chr_symbol_map(gene_df): gene_df has the columns it
\* selects, so it raises nothing.
MainGetChrSymbolMap ==
  /\ pc = "xrefs_written"
  /\ primary_df' = PrimaryDf(gene_df)
  /\ synonym_df' = SynonymDf(gene_df)
  /\ map_df' = MapDf(primary_df', synonym_df')
  /\ pc' = "map_built"
  /\ UNCHANGED <<df, column, sep, keep, new_df, history_file, gene_file,
                 history_df, gene_df, gene_xref_df, files>>

\* map_df.to_csv(path, index=False, sep='\t')
MainWriteMap ==
  /\ pc = "map_built"
  /\ files' = [files EXCEPT ![MapperPath] = ToCsv(map_df)]
  /\ pc' = "done"
  /\ UNCHANGED <<df, column, sep, keep, new_df, history_file, gene_file,
                 history_df, gene_df, gene_xref_df, primary_df, synonym_df, map_df>>

MainNext ==
  \/ MainCreateHistoryDf
  \/ MainWriteUpdater
  \/ MainCreateGeneDf
  \/ MainWriteGenes
  \/ MainCreateGeneXrefDf
  \/ MainWriteXrefs
  \/ MainGetChrSymbolMap
  \/ MainWriteMap

SpecMain == MainInit /\ [][MainNext]_vars

---------------------------------------------------------------------------
(* Claims about tidy_split.                                                *)

\* The number of rows of frame d whose cells are c.
Copies(d, c) == Cardinality({j \in DOMAIN d.rows : d.rows[j].cells = c})

\* What input row r is claimed to contribute: nothing when its target
\* column is missing; else one row per substring, and the unsplit row too
\* when keep is set and there is more than one substring.  A contribution is
\* <<k, cells>>, k = 0 for the unsplit row and k = the substring's place.
Contribution(r, col, sepr, kp) ==
  IF IsNa(r.cells[col]) THEN {}
  ELSE LET subs == Split(r.cells[col].v, sepr)
       IN  {<<k, [r.cells EXCEPT ![col] = Val(subs[k])]>> : k \in DOMAIN subs}
             \cup (IF kp /\ Len(subs) > 1 THEN {<<0, r.cells>>} ELSE {})

\* The number of rows with cells c that the input rows are claimed to
\* contribute together.
ClaimedCopies(d, col, sepr, kp, c) ==
  Cardinality({p \in UNION {{<<i, q>> : q \in Contribution(d.rows[i], col, sepr, kp)}
                               : i \in DOMAIN d.rows} : p[2][2] = c})

ClaimedCells(d, col, sepr, kp) ==
  UNION {{q[2] : q \in Contribution(d.rows[i], col, sepr, kp)} : i \in DOMAIN d.rows}

\* C5: tidy_split(df, column, sep, keep) returns the columns of df and
\* exactly the claimed collection of rows: none for a row whose target is
\* missing, one per substring otherwise (repeats included), plus the unsplit
\* row if and only if keep is set and there is more than one substring; the
\* other columns are copied.
C5_TidySplitRows ==
  pc = "split_done" =>
    /\ new_df.columns = df.columns
    /\ \A c \in ClaimedCells(df, column, sep, keep)
                  \cup {r.cells : r \in Range(new_df.rows)} :
         Copies(new_df, c) = ClaimedCopies(df, column, sep, keep, c)

\* A call with keep set on a frame holding a row whose target is missing
\* and the row "A|B|A": four rows come back, A twice.
C5_Witness ==
  /\ pc = "split_done" /\ keep /\ column = "x" /\ sep = <<"|">>
  /\ Len(df.rows) = 2
  /\ df.rows[1].cells.x = NaN
  /\ df.rows[2].cells.x = Val(<<"A", "|", "B", "|", "A">>)
  /\ Len(new_df.rows) = 4
  /\ Copies(new_df, [df.rows[2].cells EXCEPT !.x = Val(<<"A">>)]) = 2

---------------------------------------------------------------------------
(* Claims about get_chr_symbol_map.                                        *)

\* The chromosome keys of catalog row g, by place: place 0 is the whole
\* combined value (a key when there is more than one substring), place m
\* the m-th '|'-separated substring.  No keys when the chromosome is missing.
ChrKeyPlaces(g) ==
  IF IsNa(g.cells.chromosome) THEN {}
  ELSE LET subs == Split(g.cells.chromosome.v, Pipe)
       IN  {<<m, subs[m]>> : m \in DOMAIN subs}
             \cup (IF Len(subs) > 1 THEN {<<0, g.cells.chromosome.v>>} ELSE {})

ChrKeys(g) == {p[2] : p \in ChrKeyPlaces(g)}

\* The synonyms of catalog row g, by place.
SynonymPlaces(g) ==
  IF IsNa(g.cells.synonyms) THEN {}
  ELSE LET subs == Split(g.cells.synonyms.v, Pipe)
       IN  {<<k, subs[k]>> : k \in DOMAIN subs}

Synonyms(g) == {p[2] : p \in SynonymPlaces(g)}

Genes == Range(gene_df.rows)

\* The rows of the synonym candidates holding chromosome key c and synonym
\* x: one per gene, place of the synonym and place of the chromosome key.
SynonymCandidates(c, x) ==
  UNION {{<<g.cells.entrez_gene_id.v, k, m>> :
            k \in {p[1] : p \in {q \in SynonymPlaces(g) : q[2] = x}},
            m \in {p[1] : p \in {q \in ChrKeyPlaces(g) : q[2] = c}}}
         : g \in Genes}

\* Some gene has x as its approved symbol with chromosome key c.
IsApproved(c, x) ==
  \E g \in Genes : g.cells.symbol = Val(x) /\ c \in ChrKeys(g)

AllChrKeys == UNION {ChrKeys(g) : g \in Genes}
AllSynonyms == UNION {Synonyms(g) : g \in Genes}

MapRows == Range(map_df.rows)
RowsFor(x, c) ==
  {r \in MapRows : r.cells.symbol = Val(x) /\ r.cells.chromosome = Val(c)}

\* C1: no two rows of the returned table have the same (symbol,
\* chromosome) pair.
C1_UniquePairs ==
  pc = "map_done" =>
    \A i, j \in DOMAIN map_df.rows :
      i # j => \/ map_df.rows[i].cells.symbol # map_df.rows[j].cells.symbol
               \/ map_df.rows[i].cells.chromosome # map_df.rows[j].cells.chromosome

\* Two genes with the same approved symbol and chromosome, one of which
\* lists that symbol as a synonym of itself too: three candidates for one
\* pair, one row returned.
C1_Witness ==
  /\ pc = "map_done"
  /\ \E g, h \in Genes :
       /\ g # h
       /\ g.cells.symbol = Val(<<"A">>) /\ h.cells.symbol = Val(<<"A">>)
       /\ <<"1">> \in ChrKeys(g) /\ <<"1">> \in ChrKeys(h)
       /\ <<"A">> \in Synonyms(g)
  /\ Cardinality(RowsFor(<<"A">>, <<"1">>)) = 1

\* C2: for every gene with approved symbol S and a chromosome, and every
\* chromosome key C of it, the table has a row for (S, C), and the
\* identifier of such a row is that of a gene whose approved symbol is S
\* and that has chromosome key C.
C2_PrimaryFirst ==
  pc = "map_done" =>
    \A g \in Genes :
      ~IsNa(g.cells.symbol) =>
        \A c \in ChrKeys(g) :
          /\ RowsFor(g.cells.symbol.v, c) # {}
          /\ \A r \in RowsFor(g.cells.symbol.v, c) :
               \E h \in Genes :
                 /\ h.cells.entrez_gene_id = r.cells.entrez_gene_id
                 /\ h.cells.symbol = g.cells.symbol
                 /\ c \in ChrKeys(h)

\* Gene 1 lists B as its only synonym on chromosome 1 and gene 2 has B as
\* its approved symbol there: the row for (B, 1) is gene 2's.
C2_Witness ==
  /\ pc = "map_done"
  /\ Len(gene_df.rows) >= 2
  /\ gene_df.rows[1].cells.symbol = Val(<<"A">>)
  /\ gene_df.rows[1].cells.synonyms = Val(<<"A", "|", "B">>)
  /\ gene_df.rows[1].cells.chromosome = Val(<<"1">>)
  /\ gene_df.rows[2].cells.symbol = Val(<<"B">>)
  /\ gene_df.rows[2].cells.chromosome = Val(<<"1", "|", "2">>)
  /\ \E r \in RowsFor(<<"B">>, <<"1">>) : r.cells.entrez_gene_id = Val(2)
  /\ \E r \in Range(synonym_df.rows) :
       /\ r.cells.symbol = Val(<<"B">>) /\ r.cells.chromosome = Val(<<"1">>)
       /\ r.cells.entrez_gene_id = Val(1)

\* C3: a (chromosome key, synonym) pair on more than one row of the synonym
\* candidates, which is no gene's approved symbol with that key, has no row.
C3_AmbiguousDropped ==
  pc = "map_done" =>
    \A c \in AllChrKeys, x \in AllSynonyms :
      (Cardinality(SynonymCandidates(c, x)) > 1 /\ ~IsApproved(c, x))
        => RowsFor(x, c) = {}

\* Two genes list the synonym A with chromosome key 1, no gene is named A
\* there, and the table has no row for (A, 1).
C3_Witness ==
  /\ pc = "map_done"
  /\ \E g, h \in Genes :
       /\ g # h
       /\ <<"A">> \in Synonyms(g) /\ <<"A">> \in Synonyms(h)
       /\ <<"1">> \in ChrKeys(g) /\ <<"1">> \in ChrKeys(h)
  /\ ~IsApproved(<<"1">>, <<"A">>)
  /\ RowsFor(<<"A">>, <<"1">>) = {}

\* C4: a (chromosome key, synonym) pair on exactly one row of the synonym
\* candidates, which is no gene's approved symbol with that key, has a row,
\* and the row maps to the gene that contributed the pair.
C4_UnambiguousKept ==
  pc = "map_done" =>
    \A c \in AllChrKeys, x \in AllSynonyms :
      (Cardinality(SynonymCandidates(c, x)) = 1 /\ ~IsApproved(c, x))
        => /\ RowsFor(x, c) # {}
           /\ \A r \in RowsFor(x, c) :
                \E t \in SynonymCandidates(c, x) : r.cells.entrez_gene_id = Val(t[1])

\* Gene 1 and gene 2 both list A on chromosome 1 (dropped), and gene 2 alone
\* lists B there and on "1|2": the rows (B, 1) and (B, 1|2) map to gene 2.
C4_Witness ==
  /\ pc = "map_done"
  /\ Cardinality(SynonymCandidates(<<"1">>, <<"A">>)) = 2
  /\ Cardinality(SynonymCandidates(<<"1">>, <<"B">>)) = 1
  /\ ~IsApproved(<<"1">>, <<"B">>)
  /\ \E r \in RowsFor(<<"B">>, <<"1">>) : r.cells.entrez_gene_id = Val(2)
  /\ \E r \in RowsFor(<<"B">>, <<"1", "|", "2">>) : r.cells.entrez_gene_id = Val(2)

\* C10: every returned row (s, c, g) is justified by the catalog row g: s
\* is its approved symbol or one of its synonyms, c is one of its chromosome
\* keys; no row has a missing symbol or chromosome.
C10_RowsJustified ==
  pc = "map_done" =>
    \A r \in MapRows :
      /\ ~IsNa(r.cells.symbol)
      /\ ~IsNa(r.cells.chromosome)
      /\ \E g \in Genes :
           /\ g.cells.entrez_gene_id = r.cells.entrez_gene_id
           /\ \/ r.cells.symbol = g.cells.symbol
              \/ r.cells.symbol.v \in Synonyms(g)
           /\ \/ r.cells.chromosome = g.cells.chromosome
              \/ r.cells.chromosome.v \in Range(Split(g.cells.chromosome.v, Pipe))

---------------------------------------------------------------------------
(* Claims about create_history_df.                                         *)

\* Line k of the history file is of the target taxon.
IsHuman(k) == history_file.rows[k]["#tax_id"] = <<"9", "6", "0", "6">>

\* An identifier is present in a line when its field is neither the
\* missing-value marker nor empty.
IsPresent(text) == text # <<"-">> /\ text # <<>>

\* The rows of the returned frame that come from line k of the file (the
\* frame's index is the line's label).
HistoryRowsOf(k) == {r \in Range(history_df.rows) : r.index = k - 1}

\* C6: the output holds a line of the history file if and only if the
\* line's taxon is 9606 and its new identifier is present.
C6_HistoryFilter ==
  pc = "history_done" =>
    \A k \in DOMAIN history_file.rows :
      (HistoryRowsOf(k) # {})
        <=> (IsHuman(k) /\ IsPresent(history_file.rows[k]["GeneID"]))

\* A file with a human line lacking the new identifier and a line of another
\* taxon with both identifiers: an empty output.
C6_Witness ==
  /\ pc = "history_done"
  /\ Len(history_file.rows) = 2
  /\ IsHuman(1) /\ ~IsPresent(history_file.rows[1]["GeneID"])
  /\ ~IsHuman(2) /\ IsPresent(history_file.rows[2]["GeneID"])
  /\ IsPresent(history_file.rows[2]["Discontinued_GeneID"])
  /\ history_df.rows = <<>>

\* C7 as stated: no row of the output has a missing old_entrez_gene_id.
C7_NoMissingOld ==
  pc = "history_done" =>
    \A r \in Range(history_df.rows) : ~IsNa(r.cells["old_entrez_gene_id"])

\* C7 amended: a line whose old identifier is absent is kept whenever its
\* taxon is 9606 and its new identifier is present, with a missing
\* old_entrez_gene_id and after every row that has one; what no row of the
\* output has is a missing new_entrez_gene_id.
C7_MissingOldKept ==
  pc = "history_done" =>
    /\ \A r \in Range(history_df.rows) : ~IsNa(r.cells["new_entrez_gene_id"])
    /\ \A k \in DOMAIN history_file.rows :
         (/\ ~IsPresent(history_file.rows[k]["Discontinued_GeneID"])
          /\ IsHuman(k)
          /\ IsPresent(history_file.rows[k]["GeneID"]))
           => \E i \in DOMAIN history_df.rows :
                /\ history_df.rows[i].index = k - 1
                /\ IsNa(history_df.rows[i].cells["old_entrez_gene_id"])
                /\ \A j \in DOMAIN history_df.rows :
                     ~IsNa(history_df.rows[j].cells["old_entrez_gene_id"]) => j < i

\* A human line without an old identifier before a human line with one:
\* both are in the output, the first after the second.
C7_Witness ==
  /\ pc = "history_done"
  /\ Len(history_file.rows) = 2
  /\ ~IsPresent(history_file.rows[1]["Discontinued_GeneID"])
  /\ IsPresent(history_file.rows[2]["Discontinued_GeneID"])
  /\ Len(history_df.rows) = 2
  /\ history_df.rows[2].index = 0
  /\ IsNa(history_df.rows[2].cells["old_entrez_gene_id"])

---------------------------------------------------------------------------
(* Claims about the gene catalog and the run.                              *)

ClaimedGeneColumns ==
  <<"entrez_gene_id", "symbol", "description", "chromosome", "gene_type",
    "synonyms", "aliases">>

\* C8: the gene catalog create_gene_df returns, and the gene catalog
\* output written from it, have exactly the columns entrez_gene_id, symbol,
\* description, chromosome, gene_type, synonyms, aliases.
C8_GeneColumns ==
  /\ pc \in {"gene_built", "genes_written", "xref_built", "xref_failed",
             "xrefs_written", "map_built", "done"}
       => gene_df.columns = ClaimedGeneColumns
  /\ files[GenesPath] # Absent => files[GenesPath].columns = ClaimedGeneColumns

\* The results of the builder of the stage that writes path p, on the
\* files of this run.
BuilderResults(p) ==
  CASE p = UpdaterPath -> CreateHistoryDf(history_file)
    [] p = GenesPath -> CreateGeneDf(gene_file)
    [] p = XrefsPath -> CreateGeneXrefDf(gene_file)
    [] p = MapperPath ->
         {IF res.ok THEN Built(GetChrSymbolMap(res.frame)) ELSE res
            : res \in CreateGeneDf(gene_file)}

FailedPcs == {"history_failed", "gene_failed", "xref_failed"}

\* C9: a stage whose builder fails has no output file, the failure ends
\* the run, and a file that is written holds what its builder returned.
C9_AllOrNothing ==
  /\ \A p \in OutputPaths :
       /\ (\A res \in BuilderResults(p) : ~res.ok) => files[p] = Absent
       /\ files[p] # Absent =>
            \E res \in BuilderResults(p) : res.ok /\ files[p] = ToCsv(res.frame)
  /\ pc \in FailedPcs => ~ENABLED MainNext

\* The xref builder failed after the history map and the gene catalog were
\* written: those two files are there, the xref file and the lookup are not.
C9_Witness ==
  /\ pc = "xref_failed"
  /\ \A res \in CreateGeneXrefDf(gene_file) : ~res.ok
  /\ files[UpdaterPath] # Absent /\ files[GenesPath] # Absent
  /\ files[XrefsPath] = Absent /\ files[MapperPath] = Absent

============================================================================
